---- MODULE Spec2Model ----
(***************************************************************************)
(* go-unexport (src/unexport.go): collect the package-level identifiers of *)
(* the loaded packages, filter them by the -unexport / -skip flags, and    *)
(* ask gorename to rename every exported one to its lower-first form.      *)
(*                                                                         *)
(* Go strings that the program slices or scans (identifier names, flag     *)
(* values) are sequences of bytes 0..255 holding UTF-8.  The renamer's     *)
(* diagnostic output and the printed statuses are TLA+ strings.            *)
(***************************************************************************)
EXTENDS Integers, Sequences, FiniteSets, TLC

(***************************************************************************)
(* Bounds of the model.                                                    *)
(***************************************************************************)
\* most top-level declarations in one source file of a workspace
MaxDecls == 3
\* most declarations in a file of the runs checked for termination
MaxFairDecls == 2
\* most code points in an argument handed to toLowerFirst on its own
MaxRunes == 2
\* most fragments in a diagnostic text handed to prettyError on its own
MaxFrags == 2

(***************************************************************************)
(* UTF-8, as the Go runtime decodes and encodes it (range over a string,   *)
(* string(rune)), and the unicode tables restricted to the code points     *)
(* the model draws names from.                                             *)
(***************************************************************************)
RuneError == 65533

IsCont(b) == b >= 128 /\ b <= 191

\* utf8.DecodeRuneInString / the first step of `for i, v := range s`:
\* the first code point of s and its width in bytes; an ill-formed prefix
\* decodes to RuneError with width 1.
DecodeRune(s) ==
    LET n  == Len(s)
        b0 == s[1]
    IN  IF b0 < 128 THEN [r |-> b0, w |-> 1]
        ELSE IF b0 >= 194 /\ b0 <= 223 /\ n >= 2 /\ IsCont(s[2])
            THEN [r |-> (b0 - 192) * 64 + (s[2] - 128), w |-> 2]
        ELSE IF b0 >= 224 /\ b0 <= 239 /\ n >= 3 /\ IsCont(s[2]) /\ IsCont(s[3])
                /\ (b0 = 224 => s[2] >= 160) /\ (b0 = 237 => s[2] <= 159)
            THEN [r |-> (b0 - 224) * 4096 + (s[2] - 128) * 64 + (s[3] - 128), w |-> 3]
        ELSE IF b0 >= 240 /\ b0 <= 244 /\ n >= 4
                /\ IsCont(s[2]) /\ IsCont(s[3]) /\ IsCont(s[4])
                /\ (b0 = 240 => s[2] >= 144) /\ (b0 = 244 => s[2] <= 143)
            THEN [r |-> (b0 - 240) * 262144 + (s[2] - 128) * 4096
                          + (s[3] - 128) * 64 + (s[4] - 128), w |-> 4]
        ELSE [r |-> RuneError, w |-> 1]

\* string(r) for a rune r
EncodeRune(r) ==
    IF r < 0 \/ r > 1114111 \/ (r >= 55296 /\ r <= 57343)
        THEN <<239, 191, 189>>
    ELSE IF r < 128 THEN <<r>>
    ELSE IF r < 2048 THEN <<192 + (r \div 64), 128 + (r % 64)>>
    ELSE IF r < 65536
        THEN <<224 + (r \div 4096), 128 + ((r \div 64) % 64), 128 + (r % 64)>>
    ELSE <<240 + (r \div 262144), 128 + ((r \div 4096) % 64),
           128 + ((r \div 64) % 64), 128 + (r % 64)>>

\* unicode.IsUpper on ASCII, Latin-1, U+0130 (I with dot), U+023A (A with
\* stroke) and U+212A (Kelvin sign)
IsUpper(r) ==
    \/ r >= 65 /\ r <= 90
    \/ r >= 192 /\ r <= 222 /\ r # 215
    \/ r \in {304, 570, 8490}

\* unicode.ToLower on the same code points
ToLower(r) ==
    IF r >= 65 /\ r <= 90 THEN r + 32
    ELSE IF r >= 192 /\ r <= 222 /\ r # 215 THEN r + 32
    ELSE IF r = 304 THEN 105
    ELSE IF r = 570 THEN 11365
    ELSE IF r = 8490 THEN 107
    ELSE r

\* a variant that takes every name not starting with a..z for exported
IsExportedUnlessLower(name) ==
    IF name = <<>> THEN FALSE
    ELSE ~(DecodeRune(name).r >= 97 /\ DecodeRune(name).r <= 122)

\* ast.IsExported: the name's first code point is an upper-case letter
IsExported(name) ==
    IF name = <<>> THEN FALSE ELSE IsUpper(DecodeRune(name).r)

\* s[i:] for a 0-based byte index i
SliceFrom(s, i) == SubSeq(s, i + 1, Len(s))

\* a variant that decodes the first code point without the loop:
\* utf8.DecodeRuneInString("") is RuneError, so "" becomes "\uFFFD"
toLowerFirstNoLoop(s) ==
    IF s = <<>> THEN EncodeRune(ToLower(RuneError))
    ELSE EncodeRune(ToLower(DecodeRune(s).r)) \o SliceFrom(s, 0 + 1)

\* toLowerFirst: the loop body runs once, with i = 0 and v the first code
\* point, and returns string(ToLower(v)) + s[i+1:]; for the empty string the
\* loop body never runs and "" is returned.
toLowerFirst(s) ==
    IF s = <<>> THEN <<>>
    ELSE EncodeRune(ToLower(DecodeRune(s).r)) \o SliceFrom(s, 0 + 1)

(***************************************************************************)
(* strings.Contains and prettyError, on TLA+ strings.                      *)
(***************************************************************************)
Contains(s, substr) ==
    \E i \in 1..(Len(s) - Len(substr) + 1) :
        SubSeq(s, i, i + Len(substr) - 1) = substr

\* a variant whose switch tests the interface case first
prettyErrorInterfaceFirst(s) ==
    IF Contains(s, "no longer assignable to interface")
        THEN [status |-> "would breaks interface assignability", out |-> <<>>]
    ELSE IF Contains(s, "breaking references")
        THEN [status |-> "would break package clients", out |-> <<>>]
    ELSE IF Contains(s, "no identifier at this position")
        THEN [status |-> "internal error: invalid position", out |-> <<>>]
    ELSE IF Contains(s, "not a valid identifier")
        THEN [status |-> "internal error: invalid identifier", out |-> <<>>]
    ELSE IF Contains(s, "would conflict with this method")
        THEN [status |-> "symbols with unexported name form already exists", out |-> <<>>]
    ELSE [status |-> "unknown error", out |-> <<"unknown error: ", s>>]

\* prettyError's result: the status text it returns and the line it prints
\* (<<>> when it prints nothing)
prettyError(s) ==
    IF Contains(s, "breaking references")
        THEN [status |-> "would break package clients", out |-> <<>>]
    ELSE IF Contains(s, "no identifier at this position")
        THEN [status |-> "internal error: invalid position", out |-> <<>>]
    ELSE IF Contains(s, "not a valid identifier")
        THEN [status |-> "internal error: invalid identifier", out |-> <<>>]
    ELSE IF Contains(s, "would conflict with this method")
        THEN [status |-> "symbols with unexported name form already exists", out |-> <<>>]
    ELSE IF Contains(s, "no longer assignable to interface")
        THEN [status |-> "would breaks interface assignability", out |-> <<>>]
    ELSE [status |-> "unknown error", out |-> <<"unknown error: ", s>>]

(***************************************************************************)
(* strings.Split(s, ","): the pieces of s between commas; the empty string *)
(* splits into one empty piece.                                            *)
(***************************************************************************)
Comma == 44

RECURSIVE IndexByte(_, _, _)
\* 1-based index of the first byte c of s at or after position k, 0 if none
IndexByte(s, c, k) ==
    IF k > Len(s) THEN 0
    ELSE IF s[k] = c THEN k
    ELSE IndexByte(s, c, k + 1)

RECURSIVE Split(_)
Split(s) ==
    LET m == IndexByte(s, Comma, 1)
    IN  IF m = 0 THEN <<s>>
        ELSE <<SubSeq(s, 1, m - 1)>> \o Split(SubSeq(s, m + 1, Len(s)))

Range(seq) == {seq[k] : k \in 1..Len(seq)}

(***************************************************************************)
(* Source files.  A file is its Filename ("" for a file the loader made up *)
(* in memory) and its top-level declarations; a declaration is a FuncDecl  *)
(* or a GenDecl holding one ValueSpec, TypeSpec or ImportSpec, with the    *)
(* identifiers it declares.  The file's text is its declared identifiers   *)
(* in order, each followed by one separator byte.                          *)
(***************************************************************************)
RECURSIVE Flatten(_)
Flatten(seqs) ==
    IF seqs = <<>> THEN <<>> ELSE Head(seqs) \o Flatten(Tail(seqs))

\* the identifier tokens of a file, in text order
FileTokens(f) == Flatten([k \in 1..Len(f.Decls) |-> f.Decls[k].Names])

RECURSIVE OffsetOf(_, _)
\* byte offset of the k-th token's first byte in a text made of tokens
OffsetOf(tokens, k) ==
    IF k <= 1 THEN 0
    ELSE OffsetOf(tokens, k - 1) + Len(tokens[k - 1]) + 1

\* 1-based index of the token that starts at byte offset off, 0 if none does
TokenAt(tokens, off) ==
    IF \E k \in 1..Len(tokens) : OffsetOf(tokens, k) = off
        THEN CHOOSE k \in 1..Len(tokens) : OffsetOf(tokens, k) = off
    ELSE 0

\* position of the j-th identifier of the k-th declaration among f's tokens
TokenIndex(f, k, j) == Len(FileTokens([f EXCEPT !.Decls = SubSeq(f.Decls, 1, k - 1)])) + j

\* parser.ParseFile with the FileSet's position service: every declared
\* identifier becomes an *ast.Ident with its Name and its resolved Position
ParseFile(f) ==
    [Filename |-> f.Filename,
     Decls |-> [k \in 1..Len(f.Decls) |->
        [Kind |-> f.Decls[k].Kind,
         Names |-> [j \in 1..Len(f.Decls[k].Names) |->
            [Name |-> f.Decls[k].Names[j],
             Pos |-> [Filename |-> f.Filename,
                      Offset |-> OffsetOf(FileTokens(f), TokenIndex(f, k, j))]]]]]]

\* identifiers the model draws declarations from
Foo == <<70, 111, 111>>
bar == <<98, 97, 114>>
Baz == <<66, 97, 122>>
Bar == <<66, 97, 114>>
Underscore == <<95>>
AStroke == EncodeRune(570)

Decl(kind, names) == [Kind |-> kind, Names |-> names]

DeclUniverse ==
    { Decl("FuncDecl", <<Foo>>), Decl("FuncDecl", <<bar>>), Decl("FuncDecl", <<Baz>>),
      Decl("TypeSpec", <<AStroke>>), Decl("ValueSpec", <<Underscore, Bar>>),
      Decl("ImportSpec", <<>>) }

SeqsUpTo(S, n) == UNION {[1..m -> S] : m \in 0..n}

File(name, decls) == [Filename |-> name, Decls |-> decls]

\* the workspaces a run may find: one package of one file with up to
\* MaxDecls declarations; one package of two files; one package whose
\* first file has no file name; two packages of one file each
Workspaces ==
    {<<<<File("a.go", ds)>>>> : ds \in SeqsUpTo(DeclUniverse, MaxDecls)}
    \cup {<<<<File("a.go", <<d>>), File("b.go", <<e>>)>>>> : d, e \in DeclUniverse}
    \cup {<<<<File("", <<d>>), File("b.go", <<e>>)>>>> : d, e \in DeclUniverse}
    \cup {<<<<File("a.go", <<d>>)>>, <<File("b.go", <<e>>)>>>> : d, e \in DeclUniverse}

\* flag values: names joined by commas
Join2(a, b) == a \o <<Comma>> \o b

CommandLines ==
    { [v |-> FALSE, unexport |-> <<>>, skip |-> <<>>],
      [v |-> TRUE,  unexport |-> Bar, skip |-> <<>>],
      [v |-> TRUE,  unexport |-> <<>>, skip |-> Foo],
      [v |-> FALSE, unexport |-> Join2(Foo, Bar), skip |-> Join2(Bar, AStroke)] }

\* what gorename may print when it refuses
BreakingText == "renaming this func would make it unexported: breaking references from packages such as client"
OtherText == "gorename: exit status 2"
PositionText == "gorename: no identifier at this position"
RefusalTexts == {BreakingText, OtherText}

(***************************************************************************)
(* State.                                                                  *)
(***************************************************************************)
VARIABLES
    pc,         \* the step main is about to run, or "exit" / "fatal"
    ran,        \* the steps main has called so far, in order
    args,       \* the command line
    workspace,  \* the source files on disk, as packages of files
    flags,      \* l.flags
    unexport,   \* l.unexport
    skip,       \* l.skip
    symbols,    \* l.symbols
    success,    \* l.success
    pkgs,       \* l.pkgs with l.fset: the loaded syntax trees
    i,          \* index of the range loop of unexportSymbols (0: not in it)
    calls,      \* the gorename commands run so far
    stdout,     \* what was printed
    stderr,     \* what log.Fatalf printed
    unit        \* a call of a pure function on its own: fn, arg, ret

vars == <<pc, ran, args, workspace, flags, unexport, skip, symbols, success,
          pkgs, i, calls, stdout, stderr, unit>>

Steps == <<"init linter", "parse flags", "load targets", "collect symbols",
           "unexport symbols", "print results">>

StepIndex(name) == CHOOSE k \in 1..Len(Steps) : Steps[k] = name

\* main's loop: after a step returned nil, the next step, or the end of main
After(name) ==
    IF StepIndex(name) = Len(Steps) THEN "exit" ELSE Steps[StepIndex(name) + 1]

\* a Go map: nil or made; keys with value true (map[string]bool) or
\* key/value entries (map[string]string)
NilMap == [nil |-> TRUE, m |-> {}]
MakeMap == [nil |-> FALSE, m |-> {}]

NoUnit == [fn |-> "none", arg |-> <<>>, ret |-> <<>>, err |-> "", done |-> FALSE]

\* `var l linter`: every field has its zero value
Init ==
    /\ pc = Steps[1]
    /\ ran = <<>>
    /\ args \in CommandLines
    /\ workspace \in Workspaces
    /\ flags = [verbose |-> FALSE, unexport |-> <<>>, skip |-> <<>>]
    /\ unexport = NilMap
    /\ skip = NilMap
    /\ symbols = <<>>
    /\ success = NilMap
    /\ pkgs = <<>>
    /\ i = 0
    /\ calls = <<>>
    /\ stdout = <<>>
    /\ stderr = <<>>
    /\ unit = NoUnit

(***************************************************************************)
(* Go maps.                                                                *)
(***************************************************************************)
\* m[k] = true on a map[string]bool
MapSetTrue(map, k) == [map EXCEPT !.m = @ \cup {k}]

\* m[k] on a map[string]bool: false for a missing key and for a nil map
MapGet(map, k) == k \in map.m

\* m[k] = v on a map[string]string
MapPut(map, k, v) ==
    [map EXCEPT !.m = {e \in @ : e.key # k} \cup {[key |-> k, val |-> v]}]

RECURSIVE MapSetAll(_, _)
\* for _, sym := range syms { m[sym] = true }
MapSetAll(map, syms) ==
    IF syms = <<>> THEN map
    ELSE MapSetAll(MapSetTrue(map, Head(syms)), Tail(syms))

(***************************************************************************)
(* The steps of main.                                                      *)
(***************************************************************************)
Return(name) ==
    /\ pc' = After(name)
    /\ ran' = Append(ran, name)

\* l.init
InitLinter ==
    /\ pc = "init linter"
    /\ unexport' = MakeMap
    /\ skip' = MakeMap
    /\ success' = MakeMap
    /\ Return("init linter")
    /\ UNCHANGED <<args, workspace, flags, symbols, pkgs, i, calls, stdout, stderr, unit>>

\* l.parseFlags: the flag values come from the command line; every piece of
\* each comma-separated list becomes a key.  Writing to a nil map panics.
ParseFlags ==
    /\ pc = "parse flags"
    /\ flags' = [verbose |-> args.v, unexport |-> args.unexport, skip |-> args.skip]
    /\ IF unexport.nil \/ skip.nil
          THEN /\ pc' = "panic"
               /\ ran' = Append(ran, "parse flags")
               /\ UNCHANGED <<unexport, skip>>
          ELSE /\ unexport' = MapSetAll(unexport, Split(args.unexport))
               /\ skip' = MapSetAll(skip, Split(args.skip))
               /\ Return("parse flags")
    /\ UNCHANGED <<args, workspace, symbols, success, pkgs, i, calls, stdout, stderr, unit>>

\* l.loadTargets when packages.Load succeeds: every unit's package is
\* appended to l.pkgs with its parsed files
LoadTargets ==
    /\ pc = "load targets"
    /\ pkgs' = pkgs \o [p \in 1..Len(workspace) |->
                  [f \in 1..Len(workspace[p]) |-> ParseFile(workspace[p][f])]]
    /\ Return("load targets")
    /\ UNCHANGED <<args, workspace, flags, unexport, skip, symbols, success, i,
                   calls, stdout, stderr, unit>>

\* a variant that reports the error and lets main go on
LoadTargetsFailsGoesOn ==
    /\ pc = "load targets"
    /\ Return("load targets")
    /\ pkgs' = pkgs \o [p \in 1..Len(workspace) |->
                  [f \in 1..Len(workspace[p]) |-> ParseFile(workspace[p][f])]]
    /\ stderr' = Append(stderr, <<"load targets", "load error">>)
    /\ UNCHANGED <<args, workspace, flags, unexport, skip, symbols, success,
                   i, calls, stdout, unit>>

\* l.loadTargets when packages.Load returns an error: main's log.Fatalf
\* prints the step and the error and exits
LoadTargetsFails ==
    /\ pc = "load targets"
    /\ pc' = "fatal"
    /\ ran' = Append(ran, "load targets")
    /\ stderr' = Append(stderr, <<"load targets", "load error">>)
    /\ UNCHANGED <<args, workspace, flags, unexport, skip, symbols, success, pkgs,
                   i, calls, stdout, unit>>

\* a variant without the test of l.skip
collectSymIgnoresSkip(un, sk, syms, sym) ==
    IF ~un.nil \/ MapGet(un, sym.Name) THEN Append(syms, sym) ELSE syms

\* l.collectSym
collectSym(un, sk, syms, sym) ==
    IF ~un.nil \/ MapGet(un, sym.Name)
        THEN IF ~MapGet(sk, sym.Name) THEN Append(syms, sym) ELSE syms
    ELSE syms

RECURSIVE collectNames(_, _, _, _)
\* for _, id := range spec.Names { l.collectSym(id) }
collectNames(un, sk, syms, ids) ==
    IF ids = <<>> THEN syms
    ELSE collectNames(un, sk, collectSym(un, sk, syms, Head(ids)), Tail(ids))

\* the type switches of collectFileSymbols on one declaration
collectDecl(un, sk, syms, decl) ==
    CASE decl.Kind = "ValueSpec" -> collectNames(un, sk, syms, decl.Names)
      [] decl.Kind = "TypeSpec"  -> collectSym(un, sk, syms, decl.Names[1])
      [] decl.Kind = "FuncDecl"  -> collectSym(un, sk, syms, decl.Names[1])
      [] OTHER -> syms

RECURSIVE collectDecls(_, _, _, _)
collectDecls(un, sk, syms, decls) ==
    IF decls = <<>> THEN syms
    ELSE collectDecls(un, sk, collectDecl(un, sk, syms, Head(decls)), Tail(decls))

\* l.collectFileSymbols
collectFileSymbols(un, sk, syms, f) == collectDecls(un, sk, syms, f.Decls)

RECURSIVE collectFiles(_, _, _, _)
\* the inner loop of collectSymbols: files without a file name are skipped
collectFiles(un, sk, syms, files) ==
    IF files = <<>> THEN syms
    ELSE collectFiles(un, sk,
            IF Head(files).Filename = "" THEN syms
            ELSE collectFileSymbols(un, sk, syms, Head(files)),
            Tail(files))

RECURSIVE collectPkgs(_, _, _, _)
collectPkgs(un, sk, syms, ps) ==
    IF ps = <<>> THEN syms
    ELSE collectPkgs(un, sk, collectFiles(un, sk, syms, Head(ps)), Tail(ps))

\* l.collectSymbols
CollectSymbols ==
    /\ pc = "collect symbols"
    /\ symbols' = collectPkgs(unexport, skip, symbols, pkgs)
    /\ Return("collect symbols")
    /\ UNCHANGED <<args, workspace, flags, unexport, skip, success, pkgs, i,
                   calls, stdout, stderr, unit>>

(***************************************************************************)
(* gorename, seen from the program: a command given a file, a byte offset  *)
(* and a new name.  It either renames the identifier at that offset, and   *)
(* every occurrence of it, in place in the files on disk, or refuses and   *)
(* prints why.  Without an identifier at the offset it can only refuse.    *)
(***************************************************************************)
AllFiles(ws) == Flatten(ws)

\* the tokens now in the file called name
TokensOf(ws, name) ==
    LET fs == AllFiles(ws)
    IN  IF \E k \in 1..Len(fs) : fs[k].Filename = name
            THEN FileTokens(fs[CHOOSE k \in 1..Len(fs) : fs[k].Filename = name])
        ELSE <<>>

\* the identifier at file:#offset, <<>> when there is none
IdentAt(ws, file, offset) ==
    LET toks == TokensOf(ws, file)
    IN  IF file # "" /\ TokenAt(toks, offset) # 0 THEN toks[TokenAt(toks, offset)]
        ELSE <<>>

RenameAll(ws, old, new) ==
    [p \in 1..Len(ws) |-> [f \in 1..Len(ws[p]) |->
        IF ws[p][f].Filename = "" THEN ws[p][f]
        ELSE [ws[p][f] EXCEPT !.Decls = [k \in 1..Len(@) |->
                [@[k] EXCEPT !.Names = [j \in 1..Len(@) |->
                    IF @[j] = old THEN new ELSE @[j]]]]]]]

(***************************************************************************)
(* unexportSymbols: one action per turn of its range loop.                 *)
(***************************************************************************)
InLoop == pc = "unexport symbols" /\ i < Len(symbols)

\* the symbol of this turn of the loop
Sym == symbols[i + 1]

\* fmt.Sprintf("%s/%s", posn, exported), kept as its two parts
SuccessKey(posn, exported) == [posn |-> posn, name |-> exported]

\* fmt.Sprintf("%s -> %s", exported, unexported)
Arrow == <<32, 45, 62, 32>>
SuccessValue(exported, unexported) == exported \o Arrow \o unexported

\* the gorename command of tryUnexport: -offset file:#offset -to unexported
Command(posn, exported) ==
    [file |-> posn.Filename, offset |-> posn.Offset, to |-> toLowerFirst(exported)]

\* a command that was run: for which symbol of l.symbols, whether it exited
\* with status 0, and its combined output
Ran(cmd, sym, ok, out) ==
    [file |-> cmd.file, offset |-> cmd.offset, to |-> cmd.to,
     sym |-> sym, ok |-> ok, out |-> out]

Printed(name, unknown, status) ==
    [line |-> "trying to unexport", name |-> name, unknown |-> unknown,
     status |-> "(" \o status \o ")"]

\* a symbol that is not exported: the loop body does nothing
SkipUnexported ==
    /\ InLoop
    /\ ~IsExported(Sym.Name)
    /\ i' = i + 1
    /\ UNCHANGED <<pc, ran, args, workspace, flags, unexport, skip, symbols, success,
                   pkgs, calls, stdout, stderr, unit>>

\* tryUnexport when gorename exits with status 0
TryUnexportSuccess ==
    /\ InLoop
    /\ IsExported(Sym.Name)
    /\ \E cmd \in {Command(Sym.Pos, Sym.Name)} :
       \E old \in {IdentAt(workspace, cmd.file, cmd.offset)} :
           /\ old # <<>>
           /\ calls' = Append(calls, Ran(cmd, i + 1, TRUE, ""))
           /\ workspace' = RenameAll(workspace, old, cmd.to)
           /\ success' = MapPut(success, SuccessKey(Sym.Pos, Sym.Name),
                                SuccessValue(Sym.Name, cmd.to))
           /\ stdout' = Append(stdout, Printed(Sym.Name, <<>>, "success"))
    /\ i' = i + 1
    /\ UNCHANGED <<pc, ran, args, flags, unexport, skip, symbols, pkgs, stderr, unit>>

\* a variant that treats a refusal like a failed step of main: it exits
TryUnexportFailureAborts(out) ==
    /\ InLoop
    /\ IsExported(Sym.Name)
    /\ \E cmd \in {Command(Sym.Pos, Sym.Name)} :
       \E old \in {IdentAt(workspace, cmd.file, cmd.offset)} :
           /\ IF old = <<>> THEN out = PositionText ELSE out \in RefusalTexts
           /\ calls' = Append(calls, Ran(cmd, i + 1, FALSE, out))
           /\ stderr' = Append(stderr, <<"unexport symbols", out>>)
    /\ pc' = "fatal"
    /\ UNCHANGED <<ran, args, workspace, flags, unexport, skip, symbols, success,
                   pkgs, i, stdout, unit>>

\* a variant without the early return: a refusal is recorded as a success
TryUnexportFailureRecords(out) ==
    /\ InLoop
    /\ IsExported(Sym.Name)
    /\ \E cmd \in {Command(Sym.Pos, Sym.Name)} :
       \E old \in {IdentAt(workspace, cmd.file, cmd.offset)} :
           /\ IF old = <<>> THEN out = PositionText ELSE out \in RefusalTexts
           /\ calls' = Append(calls, Ran(cmd, i + 1, FALSE, out))
           /\ success' = MapPut(success, SuccessKey(Sym.Pos, Sym.Name),
                                SuccessValue(Sym.Name, cmd.to))
           /\ stdout' = Append(stdout, Printed(Sym.Name, prettyError(out).out,
                                   "impossible: " \o prettyError(out).status))
    /\ i' = i + 1
    /\ UNCHANGED <<pc, ran, args, workspace, flags, unexport, skip, symbols,
                   pkgs, stderr, unit>>

\* tryUnexport when gorename fails, having printed out
TryUnexportFailure(out) ==
    /\ InLoop
    /\ IsExported(Sym.Name)
    /\ \E cmd \in {Command(Sym.Pos, Sym.Name)} :
       \E old \in {IdentAt(workspace, cmd.file, cmd.offset)} :
           /\ IF old = <<>> THEN out = PositionText ELSE out \in RefusalTexts
           /\ calls' = Append(calls, Ran(cmd, i + 1, FALSE, out))
           /\ stdout' = Append(stdout, Printed(Sym.Name, prettyError(out).out,
                                   "impossible: " \o prettyError(out).status))
    /\ i' = i + 1
    /\ UNCHANGED <<pc, ran, args, workspace, flags, unexport, skip, symbols, success,
                   pkgs, stderr, unit>>

\* the range loop is over: unexportSymbols returns nil
UnexportSymbolsReturn ==
    /\ pc = "unexport symbols"
    /\ i = Len(symbols)
    /\ Return("unexport symbols")
    /\ UNCHANGED <<args, workspace, flags, unexport, skip, symbols, success, pkgs, i,
                   calls, stdout, stderr, unit>>

\* the orders in which a range over a map may visit its entries
Orders(S) ==
    {q \in [1..Cardinality(S) -> S] :
        \A a, b \in 1..Cardinality(S) : a # b => q[a] # q[b]}

\* l.printResults
PrintResults ==
    /\ pc = "print results"
    /\ IF flags.verbose /\ Cardinality(success.m) # 0
          THEN \E q \in Orders(success.m) :
                  stdout' = Append(stdout, [line |-> "unexported:", entries |-> q])
          ELSE UNCHANGED stdout
    /\ Return("print results")
    /\ UNCHANGED <<args, workspace, flags, unexport, skip, symbols, success, pkgs, i,
                   calls, stderr, unit>>

Next ==
    \/ InitLinter
    \/ ParseFlags
    \/ LoadTargets
    \/ LoadTargetsFails
    \/ CollectSymbols
    \/ SkipUnexported
    \/ TryUnexportSuccess
    \/ \E out \in RefusalTexts \cup {PositionText} : TryUnexportFailure(out)
    \/ UnexportSymbolsReturn
    \/ PrintResults

Spec == Init /\ [][Next]_vars

\* the runs checked for termination: those of Spec whose files have at
\* most MaxFairDecls declarations
FairInit ==
    /\ Init
    /\ \A p \in 1..Len(workspace) : \A f \in 1..Len(workspace[p]) :
        Len(workspace[p][f].Decls) <= MaxFairDecls

\* main is one sequential thread: it runs its steps one after the other,
\* and every call it makes (gorename included) returns
FairSpec == FairInit /\ [][Next]_vars /\ WF_vars(Next)

(***************************************************************************)
(* toLowerFirst and prettyError called on their own, on arguments drawn    *)
(* from bounded sets.                                                      *)
(***************************************************************************)
\* F f _ E-acute I-dot A-stroke Kelvin
Runes == {70, 102, 95, 201, 304, 570, 8490}

\* the UTF-8 strings of up to MaxRunes code points
LowerInputs ==
    {Flatten([k \in 1..Len(rs) |-> EncodeRune(rs[k])]) : rs \in SeqsUpTo(Runes, MaxRunes)}

Fragments ==
    { "breaking references", "no identifier at this position",
      "not a valid identifier", "would conflict with this method",
      "no longer assignable to interface", "breaking reference",
      "gorename: ", " exit status 1" }

RECURSIVE ConcatAll(_)
ConcatAll(strs) ==
    IF strs = <<>> THEN "" ELSE Head(strs) \o ConcatAll(Tail(strs))

\* the diagnostic texts of up to MaxFrags fragments
Texts == {ConcatAll(fs) : fs \in SeqsUpTo(Fragments, MaxFrags)}

FnInit ==
    /\ pc = "unit"
    /\ ran = <<>>
    /\ args = [v |-> FALSE, unexport |-> <<>>, skip |-> <<>>]
    /\ workspace = <<>>
    /\ flags = [verbose |-> FALSE, unexport |-> <<>>, skip |-> <<>>]
    /\ unexport = NilMap
    /\ skip = NilMap
    /\ symbols = <<>>
    /\ success = NilMap
    /\ pkgs = <<>>
    /\ i = 0
    /\ calls = <<>>
    /\ stdout = <<>>
    /\ stderr = <<>>
    /\ unit \in {[fn |-> "toLowerFirst", arg |-> s, ret |-> <<>>, err |-> "", done |-> FALSE] :
                    s \in LowerInputs}
           \cup {[fn |-> "prettyError", arg |-> t, ret |-> "", err |-> "", done |-> FALSE] :
                    t \in Texts}

\* unexported := toLowerFirst(exported): the call returns a string; the
\* function has no error result and no statement of it can panic, so the
\* call never ends with an error (err stays "nil")
CallToLowerFirst ==
    /\ pc = "unit"
    /\ unit.fn = "toLowerFirst"
    /\ ~unit.done
    /\ unit' = [unit EXCEPT !.ret = toLowerFirst(unit.arg), !.err = "nil", !.done = TRUE]
    /\ UNCHANGED <<pc, ran, args, workspace, flags, unexport, skip, symbols, success,
                   pkgs, i, calls, stdout, stderr>>

\* prettyError(string(out)): the status returned, and the line it may print
CallPrettyError ==
    /\ pc = "unit"
    /\ unit.fn = "prettyError"
    /\ ~unit.done
    /\ unit' = [unit EXCEPT !.ret = prettyError(unit.arg).status, !.err = "nil", !.done = TRUE]
    /\ stdout' = IF prettyError(unit.arg).out = <<>> THEN stdout
                 ELSE Append(stdout, prettyError(unit.arg).out)
    /\ UNCHANGED <<pc, ran, args, workspace, flags, unexport, skip, symbols, success,
                   pkgs, i, calls, stderr>>

FnNext ==
    \/ CallToLowerFirst
    \/ CallPrettyError

FnSpec == FnInit /\ [][FnNext]_vars

(***************************************************************************)
(* Properties of toLowerFirst and prettyError (under FnSpec).              *)
(***************************************************************************)
LowerCalled == unit.fn = "toLowerFirst" /\ unit.done

PrettyCalled == unit.fn = "prettyError" /\ unit.done

\* the rest of a string after its first code point
AfterFirstRune(s) == SliceFrom(s, DecodeRune(s).w)

\* C4: for every non-empty name x, toLowerFirst(x) begins with the lower-case
\* form of x's first code point, its rest after the first code point is the
\* rest of x after x's first code point, and applying it twice gives the
\* same as applying it once.
C4_LowerFirstKeepsRest ==
    (LowerCalled /\ unit.arg # <<>>) =>
        /\ DecodeRune(unit.ret).r = ToLower(DecodeRune(unit.arg).r)
        /\ AfterFirstRune(unit.ret) = AfterFirstRune(unit.arg)
        /\ toLowerFirst(unit.ret) = unit.ret

\* C5, as claimed: toLowerFirst("") fails with InvalidNameError and does not
\* return the empty string as a new name.
C5_EmptyNameFails ==
    (LowerCalled /\ unit.arg = <<>>) =>
        unit.err = "InvalidNameError" /\ unit.ret # <<>>

\* C5, amended: toLowerFirst("") returns the empty string and reports no
\* error.
C5_EmptyNameGivesEmpty ==
    (LowerCalled /\ unit.arg = <<>>) => unit.ret = <<>> /\ unit.err = "nil"

C5_Witness == LowerCalled /\ unit.arg = <<>>

\* the categories in their priority order, with the substring that selects
\* each and the status text that stands for it
Categories ==
    << [sub |-> "breaking references", status |-> "would break package clients"],
       [sub |-> "no identifier at this position", status |-> "internal error: invalid position"],
       [sub |-> "not a valid identifier", status |-> "internal error: invalid identifier"],
       [sub |-> "would conflict with this method",
        status |-> "symbols with unexported name form already exists"],
       [sub |-> "no longer assignable to interface",
        status |-> "would breaks interface assignability"] >>

Matching(s) == {k \in 1..Len(Categories) : Contains(s, Categories[k].sub)}

\* C6: prettyError(s) is the first category, in the order breaking
\* references, invalid position, invalid identifier, name collision,
\* interface assignability, whose substring occurs in s; it is "unknown
\* error" exactly when none occurs, and then, and only then, the raw text is
\* printed.
C6_FirstMatchingCategory ==
    PrettyCalled =>
        LET hit == Matching(unit.arg)
        IN  /\ hit # {} =>
                /\ \E k \in hit :
                    /\ \A j \in hit : k <= j
                    /\ unit.ret = Categories[k].status
                /\ stdout = <<>>
            /\ hit = {} =>
                /\ unit.ret = "unknown error"
                /\ stdout = << <<"unknown error: ", unit.arg>> >>
            /\ (unit.ret = "unknown error") <=> (hit = {})

\* a text with both "breaking references" and, later, "no longer assignable
\* to interface" was classified as would-break-clients
C6_Witness ==
    /\ PrettyCalled
    /\ unit.arg = "breaking references" \o "no longer assignable to interface"
    /\ unit.ret = "would break package clients"

(***************************************************************************)
(* Properties of the run (under Spec).                                     *)
(***************************************************************************)
\* the sets of names the command line configures
UnexportSet == IF args.unexport = <<>> THEN {} ELSE Range(Split(args.unexport))

SkipSet == IF args.skip = <<>> THEN {} ELSE Range(Split(args.skip))

\* the identifiers declared at the top level of the loaded files that have
\* a file name, in the order of the files and of their declarations
DeclaredIdents ==
    LET fs == AllFiles(pkgs)
    IN  Flatten([k \in 1..Len(fs) |->
            IF fs[k].Filename = "" THEN <<>> ELSE FileTokens(fs[k])])

Collected == "collect symbols" \in Range(ran)

LoopDone == "unexport symbols" \in Range(ran)

StartsUpper(name) == name # <<>> /\ IsUpper(DecodeRune(name).r)

\* the names gorename was run for
AttemptedNames == {symbols[c.sym].Name : c \in Range(calls)}

Selected(n) == (UnexportSet = {} \/ n \in UnexportSet) /\ n \notin SkipSet

\* C1: once the symbols are collected, a declared top-level name is among
\* them if and only if (the unexport set is empty or holds the name) and the
\* skip set does not hold it; no other name is passed to the renamer.
C1_RetainedIffSelected ==
    /\ Collected =>
        \A id \in Range(DeclaredIdents) : (id \in Range(symbols)) <=> Selected(id.Name)
    /\ \A n \in AttemptedNames : Selected(n)

\* C2: a name of the skip set is never collected, never passed to the
\* renamer and never recorded as a success, whatever the unexport set is;
\* and with an empty unexport set every exported declaration whose name is
\* not in the skip set has been attempted once the loop is over.
C2_SkipAlwaysWins ==
    /\ \A n \in SkipSet :
        /\ \A id \in Range(symbols) : id.Name # n
        /\ n \notin AttemptedNames
        /\ \A e \in success.m : e.key.name # n
    /\ (LoopDone /\ UnexportSet = {}) =>
        \A id \in Range(DeclaredIdents) :
            (StartsUpper(id.Name) /\ id.Name \notin SkipSet) =>
                \E c \in Range(calls) : symbols[c.sym] = id

\* skip set {Foo}, empty unexport set: Foo is declared and was not
\* attempted, another exported declaration was
C2_Witness ==
    /\ LoopDone
    /\ SkipSet = {Foo}
    /\ UnexportSet = {}
    /\ \E id \in Range(DeclaredIdents) : id.Name = Foo
    /\ Baz \in AttemptedNames
    /\ Foo \notin AttemptedNames

\* C3: the renamer is run only for names that start with an upper-case
\* letter, and only such names get a success record; a collected name that
\* does not start with one gets neither.
C3_OnlyExportedAttempted ==
    /\ \A c \in Range(calls) : StartsUpper(symbols[c.sym].Name)
    /\ \A e \in success.m : StartsUpper(e.key.name)
    /\ \A k \in 1..Len(symbols) :
        ~StartsUpper(symbols[k].Name) =>
            /\ \A c \in Range(calls) : c.sym # k
            /\ \A e \in success.m : e.key.posn # symbols[k].Pos

\* the loop went past a name starting with '_' and past a name starting
\* with a lower-case letter, and the renamer was run for another name
C3_Witness ==
    /\ LoopDone
    /\ \E k \in 1..Len(symbols) : symbols[k].Name = Underscore
    /\ \E k \in 1..Len(symbols) : symbols[k].Name = bar
    /\ calls # <<>>

RECURSIVE ExportedUpTo(_)
\* the indices, in order, of the exported symbols among the first k
ExportedUpTo(k) ==
    IF k = 0 THEN <<>>
    ELSE IF StartsUpper(symbols[k].Name) THEN Append(ExportedUpTo(k - 1), k)
    ELSE ExportedUpTo(k - 1)

\* the symbols gorename was run for, in the order of the runs
CallSyms == [k \in 1..Len(calls) |-> calls[k].sym]

C7_Exact ==
    /\ i <= Len(symbols)
    /\ CallSyms = ExportedUpTo(i)
    /\ LoopDone => i = Len(symbols)
    /\ pc \in {"fatal", "panic"} => calls = <<>>

\* C7: at every point the renamer has been run exactly once, in collection
\* order, for each exported symbol the loop has passed, whatever it
\* answered; no run ends in an abort after a rename attempt; and once
\* unexportSymbols has started it finishes, having passed every symbol.
C7_EveryCandidateTriedOnce ==
    /\ []C7_Exact
    /\ (pc = "unexport symbols") ~> LoopDone

\* the loop is over; a refused candidate was followed by a later attempt
C7_Witness ==
    /\ LoopDone
    /\ \E a, b \in 1..Len(calls) : a < b /\ ~calls[a].ok /\ calls[b].sym > calls[a].sym

\* the success records the accepted runs call for
ExpectedSuccess ==
    {[key |-> [posn |-> symbols[c.sym].Pos, name |-> symbols[c.sym].Name],
      val |-> symbols[c.sym].Name \o <<32, 45, 62, 32>> \o toLowerFirst(symbols[c.sym].Name)] :
        c \in {d \in Range(calls) : d.ok}}

DeclaredNames == [k \in 1..Len(DeclaredIdents) |-> DeclaredIdents[k].Name]

\* declarations Foo, bar, Baz, empty unexport and skip sets; the renamer
\* accepts Foo and refuses Baz with a text containing "breaking references"
FooBarBazRun ==
    /\ LoopDone
    /\ DeclaredNames = <<Foo, bar, Baz>>
    /\ UnexportSet = {}
    /\ SkipSet = {}
    /\ \A c \in Range(calls) :
        /\ symbols[c.sym].Name = Foo => c.ok
        /\ symbols[c.sym].Name = Baz => ~c.ok /\ Contains(c.out, "breaking references")

C8_Exact ==
    /\ success.m = ExpectedSuccess
    /\ FooBarBazRun =>
        /\ [k \in 1..Len(calls) |-> symbols[calls[k].sym].Name] = <<Foo, Baz>>
        /\ {e.val : e \in success.m} = {<<70, 111, 111, 32, 45, 62, 32, 102, 111, 111>>}
        /\ stdout[1].name = Foo /\ stdout[1].status = "(success)"
        /\ stdout[2].name = Baz
        /\ stdout[2].status = "(impossible: would break package clients)"

\* C8: at every point the success map holds exactly one entry for each run
\* of the renamer that was accepted, keyed by the symbol's position and
\* original name, with the value "name -> toLowerFirst(name)"; an entry, once
\* there, stays as it is; and for Foo (accepted), bar, Baz (refused for
\* breaking references) exactly Foo and Baz are attempted, the success set
\* is {Foo -> foo} and Baz is reported as breaking package clients.
C8_SuccessSetExact ==
    /\ []C8_Exact
    /\ [][\A e \in success.m : e \in success'.m]_vars

C8_Witness == FooBarBazRun /\ Len(calls) = 2 /\ Cardinality(success.m) = 1

\* C9: main calls its steps in the order of Steps, each after the one
\* before returned; when load targets fails the run is over at once: no
\* later step is called, nothing is collected, the renamer is not run, and
\* there is neither a success record nor any output.
C9_LoadFailureIsFatal ==
    /\ Len(ran) <= Len(Steps)
    /\ \A k \in 1..Len(ran) : ran[k] = Steps[k]
    /\ pc \in Range(Steps) => pc = Steps[Len(ran) + 1]
    /\ stderr # <<>> =>
        /\ pc = "fatal"
        /\ ran = SubSeq(Steps, 1, 3)
        /\ symbols = <<>>
        /\ calls = <<>>
        /\ success.m = {}
        /\ stdout = <<>>
        /\ ~ENABLED Next
    /\ (symbols # <<>> \/ calls # <<>> \/ stdout # <<>> \/ success.m # {}) =>
        /\ pc # "fatal"
        /\ Len(ran) >= 3

\* the load failed in a workspace that declares an exported name
C9_Witness ==
    /\ pc = "fatal"
    /\ stderr # <<>>
    /\ \E p \in 1..Len(workspace) : \E f \in 1..Len(workspace[p]) :
        workspace[p][f].Filename # "" /\ Foo \in Range(FileTokens(workspace[p][f]))

\* the names of the tokens of the file called name, as they were loaded
LoadedTokens(name) ==
    LET fs == AllFiles(pkgs)
        f  == fs[CHOOSE k \in 1..Len(fs) : fs[k].Filename = name]
    IN  [k \in 1..Len(FileTokens(f)) |-> FileTokens(f)[k].Name]

\* where the identifier id, loaded at id.Pos, starts in its file now
CurrentOffset(id) ==
    OffsetOf(TokensOf(workspace, id.Pos.Filename),
             TokenAt(LoadedTokens(id.Pos.Filename), id.Pos.Offset))

\* C10: every address passed to the renamer is the file and byte offset
\* recorded when the package was loaded; and, after the renames made so
\* far, the offset recorded for the next candidate is still where that
\* candidate's identifier starts in the file.
C10_OffsetsStayValid ==
    /\ \A c \in Range(calls) :
        c.file = symbols[c.sym].Pos.Filename /\ c.offset = symbols[c.sym].Pos.Offset
    /\ (InLoop /\ StartsUpper(Sym.Name)) => Sym.Pos.Offset = CurrentOffset(Sym)

====
